---- MODULE Spec2Model ----
(***************************************************************************)
(* Package discovery and dependency resolution of cmd/golo (and its twin   *)
(* cmd/kodos): loadSources, loadDependencies (load, walk), register,       *)
(* importPath and cacheDir, with the part of main that calls them.         *)
(***************************************************************************)
EXTENDS Integers, Sequences, FiniteSets, TLC

(***************************************************************************)
(* Bounds of the model.                                                    *)
(***************************************************************************)
\* number of distinct module identifiers in a resolution run
NumMods == 3
\* number of packages handed to loadDependencies by loadSources
MaxInit == 2
\* total number of import edges of the packages of one run
MaxEdges == 3

ModNames == <<<<"x", "/", "a">>, <<"b">>, <<"c">>, <<"d">>, <<"e">>, <<"f">>>>
Mods == {ModNames[i] : i \in 1..NumMods}

\* every call of walk pushes a frame for a module identifier that was not
\* seen before, so the depth never exceeds the number of identifiers + 1
StackCap == NumMods + 2

(***************************************************************************)
(* Helpers on sequences.                                                   *)
(***************************************************************************)
Range(s) == {s[i] : i \in DOMAIN s}
NoDup(s) == \A i, j \in DOMAIN s : i # j => s[i] # s[j]
SeqsUpTo(S, n) == UNION {[1..k -> S] : k \in 0..n}
Last(s) == s[Len(s)]
Front(s) == SubSeq(s, 1, Len(s) - 1)
RECURSIVE SumLen(_)
SumLen(ss) == IF ss = <<>> THEN 0 ELSE Len(Head(ss)) + SumLen(Tail(ss))

(***************************************************************************)
(* Strings are tuples of characters, so that strings.HasPrefix, path.Join  *)
(* and filepath.Join (the separator is "/") are computed as Go does.       *)
(***************************************************************************)
HasPrefix(s, p) == Len(p) <= Len(s) /\ SubSeq(s, 1, Len(p)) = p

\* strings.Split(s, "/"), cur being the element read so far
RECURSIVE SplitSlash(_, _)
SplitSlash(s, cur) ==
  IF s = <<>> THEN <<cur>>
  ELSE IF Head(s) = "/" THEN <<cur>> \o SplitSlash(Tail(s), <<>>)
  ELSE SplitSlash(Tail(s), Append(cur, Head(s)))

\* strings.Join(elems, "/")
RECURSIVE JoinSlash(_)
JoinSlash(elems) ==
  IF elems = <<>> THEN <<>>
  ELSE IF Len(elems) = 1 THEN elems[1]
  ELSE elems[1] \o <<"/">> \o JoinSlash(Tail(elems))

\* path.Clean on the elements of a path: "" and "." are dropped, ".." takes
\* the element before it away (or stays, in a path that is not rooted)
RECURSIVE CleanElems(_, _, _)
CleanElems(elems, out, rooted) ==
  IF elems = <<>> THEN out
  ELSE LET e == Head(elems) IN
       IF e = <<>> \/ e = <<".">> THEN CleanElems(Tail(elems), out, rooted)
       ELSE IF e = <<".", ".">>
         THEN IF out # <<>> /\ Last(out) # <<".", ".">>
                THEN CleanElems(Tail(elems), Front(out), rooted)
                ELSE IF rooted THEN CleanElems(Tail(elems), out, rooted)
                ELSE CleanElems(Tail(elems), Append(out, e), rooted)
         ELSE CleanElems(Tail(elems), Append(out, e), rooted)

\* path.Clean / filepath.Clean
Clean(s) ==
  IF s = <<>> THEN <<".">>
  ELSE LET rooted == Head(s) = "/"
           body == JoinSlash(CleanElems(SplitSlash(s, <<>>), <<>>, rooted))
           r == IF rooted THEN <<"/">> \o body ELSE body
       IN  IF r = <<>> THEN <<".">> ELSE r

\* path.Join / filepath.Join: empty elements are ignored, the rest joined by
\* "/" and cleaned; "" when nothing is left
RECURSIVE NonEmpty(_)
NonEmpty(elems) ==
  IF elems = <<>> THEN <<>>
  ELSE IF Head(elems) = <<>> THEN NonEmpty(Tail(elems))
  ELSE <<Head(elems)>> \o NonEmpty(Tail(elems))
Join(elems) ==
  IF NonEmpty(elems) = <<>> THEN <<>> ELSE Clean(JoinSlash(NonEmpty(elems)))

(***************************************************************************)
(* State.                                                                  *)
(***************************************************************************)
VARIABLES
  input,     \* the packages main passed to loadDependencies (never written)
  srcs,      \* loadDependencies: the variadic parameter srcs, appended to by walk
  nInit,     \* loadDependencies: length of srcs[:] when the range loop starts
  seen,      \* loadDependencies: the map seen, as the set of its true keys
  stack,     \* call stack: one frame per active range over an Imports list
  oi,        \* index of the next initial package of the outer range loop
  pc,        \* position of main: "seed", "range", "returned", "built", "fatal"
  fs,        \* file system: result of os.Stat per directory, fixed once probed
  loadLog,   \* every call of load: its path, the directories it handed to
             \* os.Stat in order, and the directory it settled on
  walkLog,   \* every path walk was invoked with, in order
  fatalMsg,  \* what fatal printed before os.Exit(1), <<>> if nothing
  \* loadSources
  prefix0,   \* the prefix main passed to loadSources
  tree,      \* file system below the scan root: the entries listed so far
  opened,    \* every directory handed to os.Open
  frames,    \* call stack of loadSources: prefix, dir, entries left, srcs
  scanned,   \* what the outermost loadSources returned
  spc,       \* position of the scan: "scan", "done", "fatal", "off"
  \* register
  reg,       \* what the closure of register captured: prefix, arg, dir (and,
             \* for reference, the rootdir and kind register was called with)
  calls,     \* every call of the closure: the path, the calls of next, the
             \* paths handed to os.Stat and build.ImportDir, and the outcome
  cfs,       \* file system below the cache: the directories probed so far
  rpc        \* position: "new", "ready", "fatal", "off"

resVars == <<input, srcs, nInit, seen, stack, oi, pc, fs, loadLog, walkLog, fatalMsg>>
scanVars == <<prefix0, tree, opened, frames, scanned, spc>>
regVars == <<reg, calls, cfs, rpc>>
vars == <<resVars, scanVars, regVars>>

(***************************************************************************)
(* Directories.  rootdir is vcs.Root(), GOROOT is runtime.GOROOT().         *)
(***************************************************************************)
rootdir == <<"/", "r">>
GOROOT == <<"/", "g">>
\* filepath.Join(runtime.GOROOT(), "src", path), filepath.Join(rootdir,
\* "vendor", path) and filepath.Join(rootdir, path), tabulated over the
\* project root and the module identifiers of the model
GorootSrcOf == [m \in Mods |-> Join(<<GOROOT, <<"s", "r", "c">>, m>>)]
VendorDirOf ==
  [r \in {rootdir} |-> [m \in Mods |-> Join(<<r, <<"v", "e", "n", "d", "o", "r">>, m>>)]]
LocalDirOf == [r \in {rootdir} |-> [m \in Mods |-> Join(<<r, m>>)]]
GorootSrc(path) == GorootSrcOf[path]
VendorDir(root, path) == VendorDirOf[root][path]
LocalDir(root, path) == LocalDirOf[root][path]
Dirs == {GorootSrc(m) : m \in Mods} \cup {VendorDir(rootdir, m) : m \in Mods}

\* os.Stat(dir): err == nil iff the directory is there
StatOk(f, dir) == f[dir] = "exists"

\* the environment's answer to a first os.Stat of dir is free; later ones repeat it
Answers(f, dir) == IF f[dir] = "unknown" THEN {"exists", "absent"} ELSE {f[dir]}

(***************************************************************************)
(* importPath (golo.go:218-226): build.ImportDir(dir), check(err), then    *)
(* pkg.ImportPath = path.  r is what build.ImportDir returned.             *)
(***************************************************************************)
importPath(path, dir, r) ==
  [ok  |-> ~r.err,
   pkg |-> [ImportPath |-> path, Dir |-> r.pkg.Dir, Imports |-> r.pkg.Imports],
   msg |-> <<"import", dir>>]

\* the Imports lists of at most n edges: module identifiers, none twice
ImportLists(n) ==
  {s \in SeqsUpTo(Mods, IF n < NumMods THEN n ELSE NumMods) : NoDup(s)}

\* what build.ImportDir(dir, 0) may return: an error, or a package whose
\* ImportPath is "." and whose Imports is any list within the edge budget
ImportDirResults(dir, budget) ==
  {[err |-> TRUE, pkg |-> [ImportPath |-> <<".">>, Dir |-> dir, Imports |-> <<>>]]}
  \cup {[err |-> FALSE, pkg |-> [ImportPath |-> <<".">>, Dir |-> dir, Imports |-> imps]] :
          imps \in ImportLists(budget)}

\* a load that goes on with the vendor directory although os.Stat failed
load_lenient(root, path, f) ==
  LET std == GorootSrc(path)
      vnd == VendorDir(root, path)
  IN  IF StatOk(f, std)
        THEN [ok |-> TRUE, dir |-> std, stats |-> <<std>>, msg |-> <<>>]
        ELSE [ok |-> TRUE, dir |-> vnd, stats |-> <<std, vnd>>, msg |-> <<>>]

\* a load that stats both roots before it chooses
load_statBoth(root, path, f) ==
  LET std == GorootSrc(path)
      vnd == VendorDir(root, path)
  IN  IF StatOk(f, std)
        THEN [ok |-> TRUE, dir |-> std, stats |-> <<std, vnd>>, msg |-> <<>>]
        ELSE IF StatOk(f, vnd)
               THEN [ok |-> TRUE, dir |-> vnd, stats |-> <<std, vnd>>, msg |-> <<>>]
               ELSE [ok |-> FALSE, dir |-> vnd, stats |-> <<std, vnd>>,
                     msg |-> <<"cannot resolve path", path>>]

\* a load that prefers the vendor directory
load_vendorFirst(root, path, f) ==
  LET std == GorootSrc(path)
      vnd == VendorDir(root, path)
  IN  IF StatOk(f, vnd)
        THEN [ok |-> TRUE, dir |-> vnd, stats |-> <<vnd>>, msg |-> <<>>]
        ELSE IF StatOk(f, std)
               THEN [ok |-> TRUE, dir |-> std, stats |-> <<vnd, std>>, msg |-> <<>>]
               ELSE [ok |-> FALSE, dir |-> std, stats |-> <<vnd, std>>,
                     msg |-> <<"cannot resolve path", path>>]

(***************************************************************************)
(* load (golo.go:160-171, kodos.go:157-205).  f is the file system.        *)
(***************************************************************************)
load(root, path, f) ==
  LET std == GorootSrc(path)
      vnd == VendorDir(root, path)
  IN  IF StatOk(f, std)
        THEN [ok |-> TRUE, dir |-> std, stats |-> <<std>>, msg |-> <<>>]
        ELSE IF StatOk(f, vnd)
               THEN [ok |-> TRUE, dir |-> vnd, stats |-> <<std, vnd>>, msg |-> <<>>]
               ELSE [ok |-> FALSE, dir |-> vnd, stats |-> <<std, vnd>>,
                     msg |-> <<"cannot resolve path", path>>]

(***************************************************************************)
(* loadDependencies (golo.go:159-199).                                     *)
(***************************************************************************)
\* what loadSources hands over: packages k..n with distinct ImportPaths and at
\* most budget import edges in all.  The code compares module identifiers only
\* for equality, so the k-th initial package is given the k-th name.
RECURSIVE InitialSets(_, _, _)
InitialSets(k, n, budget) ==
  {<<>>} \cup
  (IF k > n THEN {}
   ELSE UNION {{<<[ImportPath |-> ModNames[k], Dir |-> LocalDir(rootdir, ModNames[k]),
                   Imports |-> imps]>> \o rest :
                  rest \in InitialSets(k + 1, n, budget - Len(imps))} :
               imps \in ImportLists(budget)})

\* the scan is not part of this run
ScanOff ==
  /\ prefix0 = <<>>
  /\ tree = {}
  /\ opened = {}
  /\ frames = <<>>
  /\ scanned = <<>>
  /\ spc = "off"

\* register is not part of this run
RegOff ==
  /\ reg = <<>>
  /\ calls = <<>>
  /\ cfs = {}
  /\ rpc = "off"

EdgesLeft == MaxEdges - SumLen([k \in DOMAIN srcs |-> srcs[k].Imports])

ImportPaths(ss) == {ss[k].ImportPath : k \in DOMAIN ss}

\* The packages of the project itself live under rootdir outside vendor (which
\* loadSources skips) and outside GOROOT: their identifiers name no directory
\* of either root.  Every other directory answers its first os.Stat freely.
Init ==
  /\ srcs \in InitialSets(1, IF MaxInit < NumMods THEN MaxInit ELSE NumMods, MaxEdges)
  /\ input = srcs
  /\ nInit = Len(srcs)
  /\ seen = {}
  /\ stack = <<>>
  /\ oi = 1
  /\ pc = "seed"
  /\ fs = [d \in Dirs |-> IF \E m \in ImportPaths(srcs) : d \in {GorootSrc(m), VendorDir(rootdir, m)}
                           THEN "absent" ELSE "unknown"]
  /\ loadLog = <<>>
  /\ walkLog = <<>>
  /\ fatalMsg = <<>>
  /\ ScanOff
  /\ RegOff

\* a seeding that leaves out the first initial package
seedSeen_dropFirst(ss) == {ss[k].ImportPath : k \in DOMAIN ss \ {1}}

\* golo.go:188-190: for _, src := range srcs { seen[src.ImportPath] = true }
seedSeen(ss) == {ss[k].ImportPath : k \in DOMAIN ss}

SeedSeen ==
  /\ pc = "seed"
  /\ seen' = seedSeen(srcs)
  /\ pc' = "range"
  /\ UNCHANGED <<srcs, input, nInit, stack, oi, fs, loadLog, walkLog, fatalMsg>>
  /\ UNCHANGED <<scanVars, regVars>>

\* a range that starts at the second import
walkFrame_skipFirst(pkg) == [path |-> pkg.ImportPath, imports |-> pkg.Imports, i |-> 2]

\* golo.go:184 and 193: the range over the Imports of pkg starts at its first
walkFrame(pkg) == [path |-> pkg.ImportPath, imports |-> pkg.Imports, i |-> 1]

\* golo.go:192-193: the outer loop takes the next initial package
RangeSrc ==
  /\ pc = "range" /\ stack = <<>> /\ oi <= nInit
  /\ stack' = <<walkFrame(srcs[oi])>>
  /\ oi' = oi + 1
  /\ UNCHANGED <<srcs, input, nInit, seen, pc, fs, loadLog, walkLog, fatalMsg>>
  /\ UNCHANGED <<scanVars, regVars>>

\* golo.go:198: return srcs
Return ==
  /\ pc = "range" /\ stack = <<>> /\ oi > nInit
  /\ pc' = "returned"
  /\ UNCHANGED <<srcs, input, nInit, seen, stack, oi, fs, loadLog, walkLog, fatalMsg>>
  /\ UNCHANGED <<scanVars, regVars>>

HasNext == stack # <<>> /\ Last(stack).i <= Len(Last(stack).imports)
NextImport == Last(stack).imports[Last(stack).i]
Advance(st) == [st EXCEPT ![Len(st)].i = @ + 1]

\* golo.go:177: if seen[path]
alreadySeen(s, path) == path \in s

\* a walk that forgets to mark the path it is about to load
markSeen_forget(s, path) == s

\* golo.go:181: seen[path] = true
markSeen(s, path) == s \cup {path}

\* golo.go:177-180: walk(path) with seen[path] returns at once
WalkSeen ==
  /\ pc = "range" /\ HasNext
  /\ alreadySeen(seen, NextImport)
  /\ walkLog' = Append(walkLog, NextImport)
  /\ stack' = Advance(stack)
  /\ UNCHANGED <<srcs, input, nInit, seen, oi, pc, fs, loadLog, fatalMsg>>
  /\ UNCHANGED <<scanVars, regVars>>

\* golo.go:181-186: walk(path) marks path seen, loads it, appends it and
\* starts ranging over its Imports.  The two roots answer for path when it is
\* first looked up, whether or not load goes on to ask the second.
WalkLoad ==
  /\ pc = "range" /\ HasNext
  /\ ~alreadySeen(seen, NextImport)
  /\ Len(stack) < StackCap
  /\ LET path == NextImport
         std == GorootSrc(path)
         vnd == VendorDir(rootdir, path)
     IN
     \E s \in Answers(fs, std), v \in Answers(fs, vnd) :
       LET g == [fs EXCEPT ![std] = s, ![vnd] = v]
           L == load(rootdir, path, g)
       IN
          /\ fs' = g
          /\ walkLog' = Append(walkLog, path)
          /\ seen' = markSeen(seen, path)
          /\ loadLog' = Append(loadLog, [path |-> path, stats |-> L.stats,
                                         ok |-> L.ok, dir |-> L.dir])
          /\ IF ~L.ok
               THEN /\ pc' = "fatal"
                    /\ fatalMsg' = L.msg
                    /\ UNCHANGED <<srcs, stack>>
               ELSE \E r \in ImportDirResults(L.dir, EdgesLeft) :
                      LET P == importPath(path, L.dir, r) IN
                      IF ~P.ok
                        THEN /\ pc' = "fatal"
                             /\ fatalMsg' = P.msg
                             /\ UNCHANGED <<srcs, stack>>
                        ELSE /\ srcs' = Append(srcs, P.pkg)
                             /\ stack' = Append(Advance(stack), walkFrame(P.pkg))
                             /\ UNCHANGED <<pc, fatalMsg>>
  /\ UNCHANGED <<input, nInit, oi>>
  /\ UNCHANGED <<scanVars, regVars>>

\* golo.go:184-187 and 193-196: a range over an Imports list is exhausted
WalkReturn ==
  /\ pc = "range" /\ stack # <<>> /\ ~HasNext
  /\ stack' = Front(stack)
  /\ UNCHANGED <<srcs, input, nInit, seen, oi, pc, fs, loadLog, walkLog, fatalMsg>>
  /\ UNCHANGED <<scanVars, regVars>>

\* golo.go:96-102: ctx.Transform(srcs...) and golo.BuildPackages(pkgs...)
Transform ==
  /\ pc = "returned"
  /\ pc' = "built"
  /\ UNCHANGED <<srcs, input, nInit, seen, stack, oi, fs, loadLog, walkLog, fatalMsg>>
  /\ UNCHANGED <<scanVars, regVars>>

Next == SeedSeen \/ RangeSrc \/ Return \/ WalkSeen \/ WalkLoad \/ WalkReturn \/ Transform

Spec == Init /\ [][Next]_vars

(***************************************************************************)
(* loadSources (golo.go:123-157, kodos.go:120-154).                        *)
(***************************************************************************)
\* number of directory entries below the scan root, in all
MaxEntries == 2

scanRoot == <<"/", "r">>
Prefixes == {<<>>, <<"h", "/", "p">>}

PlainNames == {<<"a">>, <<"v", "e", "n", "d", "o", "r", "s">>}
SkipNames == {<<".", "g", "i", "t">>, <<"_", "x">>,
              <<"t", "e", "s", "t", "d", "a", "t", "a">>,
              <<"v", "e", "n", "d", "o", "r">>}
FileNames == {<<"m", ".", "g", "o">>}

\* a directory holds buildable Go source ("pkg"), none ("nogo": ImportDir
\* returns *build.NoGoError), or source ImportDir rejects ("bad"); or it
\* cannot be opened ("noperm")
DirKinds == {"pkg", "nogo", "bad"}

\* what Readdir may list: a name, and what is behind it
EntryChoices ==
  {[name |-> n, kind |-> k] : n \in PlainNames, k \in DirKinds \cup {"noperm"}}
  \cup {[name |-> n, kind |-> k] : n \in SkipNames, k \in {"pkg", "nogo"}}
  \cup {[name |-> n, kind |-> "file"] : n \in FileNames}

\* the listings of a directory: at most n entries, no name twice
RECURSIVE Listings(_)
Listings(n) ==
  IF n <= 0 THEN {{}}
  ELSE Listings(n - 1) \cup
       {L \cup {e} : L \in Listings(n - 1),
                     e \in EntryChoices}

ValidListing(L) == \A e1, e2 \in L : e1.name = e2.name => e1 = e2

\* fi.IsDir()
IsDir(e) == e.kind # "file"

\* the name test without the vendor directory
skipped_noVendor(name) ==
  \/ HasPrefix(name, <<"_">>)
  \/ HasPrefix(name, <<".">>)
  \/ name = <<"t", "e", "s", "t", "d", "a", "t", "a">>

\* golo.go:133: names that loadSources ignores
skipped(name) ==
  \/ HasPrefix(name, <<"_">>)
  \/ HasPrefix(name, <<".">>)
  \/ name = <<"t", "e", "s", "t", "d", "a", "t", "a">>
  \/ name = <<"v", "e", "n", "d", "o", "r">>

\* a scan that puts the directory's own package in front of its children's
appendOwn_first(ss, own) == own \o ss

\* golo.go:148: srcs = append(srcs, pkg), after the loop over the entries
appendOwn(ss, own) == ss \o own

\* golo.go:138: the frame of loadSources(path.Join(prefix, name),
\* filepath.Join(dir, name)), whose Readdir lists L
scanFrame(pfx, dir, name, L) ==
  [prefix |-> Join(<<pfx, name>>), dir |-> Join(<<dir, name>>),
   pending |-> L, srcs |-> <<>>]

\* the entries of listing L of the directory at rel, as nodes of the tree
Nodes(dir, rel, L) ==
  {[dir |-> Join(<<dir, e.name>>), rel |-> Append(rel, e.name), kind |-> e.kind] : e \in L}

NodeOf(dir) == CHOOSE n \in tree : n.dir = dir

\* the resolver is not part of this run
ResOff ==
  /\ input = <<>>
  /\ srcs = <<>>
  /\ nInit = 0
  /\ seen = {}
  /\ stack = <<>>
  /\ oi = 1
  /\ pc = "off"
  /\ fs = [d \in Dirs |-> "unknown"]
  /\ loadLog = <<>>
  /\ walkLog = <<>>
  /\ fatalMsg = <<>>

\* main calls loadSources(prefix, dir): os.Open and Readdir of the root
ScanInit ==
  /\ ResOff
  /\ RegOff
  /\ prefix0 \in Prefixes
  /\ \E k \in DirKinds, L \in Listings(MaxEntries) :
       /\ ValidListing(L)
       /\ tree = {[dir |-> scanRoot, rel |-> <<>>, kind |-> k]} \cup Nodes(scanRoot, <<>>, L)
       /\ frames = <<[prefix |-> prefix0, dir |-> scanRoot, pending |-> L, srcs |-> <<>>]>>
  /\ opened = {scanRoot}
  /\ scanned = <<>>
  /\ spc = "scan"

Top == frames[Len(frames)]
Drop(e) == [frames EXCEPT ![Len(frames)].pending = @ \ {e}]

\* golo.go:133-136: an ignored name
ScanSkip ==
  /\ spc = "scan" /\ frames # <<>>
  /\ \E e \in Top.pending :
       /\ skipped(e.name)
       /\ frames' = Drop(e)
  /\ UNCHANGED <<prefix0, tree, opened, scanned, spc>>
  /\ UNCHANGED <<resVars, regVars>>

\* golo.go:137: an entry that is no directory
ScanFile ==
  /\ spc = "scan" /\ frames # <<>>
  /\ \E e \in Top.pending :
       /\ ~skipped(e.name) /\ ~IsDir(e)
       /\ frames' = Drop(e)
  /\ UNCHANGED <<prefix0, tree, opened, scanned, spc>>
  /\ UNCHANGED <<resVars, regVars>>

\* golo.go:138 and 124-128: recursion into a subdirectory, which is opened
\* and listed; check(err) ends the run when it cannot be
ScanDescend ==
  /\ spc = "scan" /\ frames # <<>>
  /\ \E e \in Top.pending :
       /\ ~skipped(e.name) /\ IsDir(e)
       /\ \E L \in Listings(MaxEntries + 1 - Cardinality(tree)) :
            LET f == scanFrame(Top.prefix, Top.dir, e.name, L) IN
            /\ ValidListing(L)
            /\ opened' = opened \cup {f.dir}
            /\ IF e.kind = "noperm"
                 THEN /\ L = {}
                      /\ spc' = "fatal"
                      /\ UNCHANGED <<frames, tree>>
                 ELSE /\ frames' = Append(Drop(e), f)
                      /\ tree' = tree \cup Nodes(f.dir, NodeOf(f.dir).rel, L)
                      /\ UNCHANGED spc
  /\ UNCHANGED <<prefix0, scanned>>
  /\ UNCHANGED <<resVars, regVars>>

\* golo.go:142-156: build.ImportDir(dir, 0) once the entries are done, then
\* return srcs to the caller, which appends them to its own (golo.go:138)
ScanImport ==
  /\ spc = "scan" /\ frames # <<>>
  /\ Top.pending = {}
  /\ LET kind == NodeOf(Top.dir).kind
         own == IF kind = "pkg"
                  THEN <<[ImportPath |-> Top.prefix, Dir |-> Top.dir, Imports |-> <<>>]>>
                  ELSE <<>>
         ret == appendOwn(Top.srcs, own)
     IN  IF kind = "bad"
           THEN /\ spc' = "fatal"
                /\ UNCHANGED <<frames, scanned>>
           ELSE IF Len(frames) = 1
             THEN /\ scanned' = ret
                  /\ frames' = <<>>
                  /\ spc' = "done"
             ELSE /\ frames' = [Front(frames) EXCEPT ![Len(frames) - 1].srcs = @ \o ret]
                  /\ UNCHANGED <<scanned, spc>>
  /\ UNCHANGED <<prefix0, tree, opened>>
  /\ UNCHANGED <<resVars, regVars>>

ScanNext == ScanSkip \/ ScanFile \/ ScanDescend \/ ScanImport

SpecScan == ScanInit /\ [][ScanNext]_vars

(***************************************************************************)
(* crypto/sha1 and fmt's %x, for cacheDir (golo.go:228-231).  A 32-bit     *)
(* word is the pair of its high and low 16 bits; a byte is 0..255.         *)
(***************************************************************************)
HexDigits == <<"0", "1", "2", "3", "4", "5", "6", "7",
               "8", "9", "a", "b", "c", "d", "e", "f">>
HexVal(c) == (CHOOSE i \in 1..16 : HexDigits[i] = c) - 1
Half == 2 ^ 16
Hex16(h) == 4096 * HexVal(h[1]) + 256 * HexVal(h[2]) + 16 * HexVal(h[3]) + HexVal(h[4])
HexWord(h) == <<Hex16(SubSeq(h, 1, 4)), Hex16(SubSeq(h, 5, 8))>>

RECURSIVE Xor16(_, _, _)
Xor16(a, b, n) ==
  IF n = 0 THEN 0 ELSE ((a + b) % 2) + 2 * Xor16(a \div 2, b \div 2, n - 1)
RECURSIVE And16(_, _, _)
And16(a, b, n) ==
  IF n = 0 THEN 0 ELSE ((a % 2) * (b % 2)) + 2 * And16(a \div 2, b \div 2, n - 1)
Xor32(a, b) == <<Xor16(a[1], b[1], 16), Xor16(a[2], b[2], 16)>>
And32(a, b) == <<And16(a[1], b[1], 16), And16(a[2], b[2], 16)>>
Not32(a) == <<Half - 1 - a[1], Half - 1 - a[2]>>
\* a | b = (a ^ b) + (a & b): the two summands share no bit
Or32(a, b) ==
  <<Xor16(a[1], b[1], 16) + And16(a[1], b[1], 16),
    Xor16(a[2], b[2], 16) + And16(a[2], b[2], 16)>>
\* rotation to the left by n < 16 bits, and by any n < 32
RotlSmall(a, n) ==
  IF n = 0 THEN a
  ELSE <<((a[1] * (2 ^ n)) % Half) + (a[2] \div (2 ^ (16 - n))),
         ((a[2] * (2 ^ n)) % Half) + (a[1] \div (2 ^ (16 - n)))>>
Rotl32(a, n) == IF n < 16 THEN RotlSmall(a, n) ELSE RotlSmall(<<a[2], a[1]>>, n - 16)
\* addition modulo 2^32
Add32(a, b) ==
  <<(a[1] + b[1] + ((a[2] + b[2]) \div Half)) % Half, (a[2] + b[2]) % Half>>

sha1Init ==
  <<HexWord(<<"6", "7", "4", "5", "2", "3", "0", "1">>),
    HexWord(<<"e", "f", "c", "d", "a", "b", "8", "9">>),
    HexWord(<<"9", "8", "b", "a", "d", "c", "f", "e">>),
    HexWord(<<"1", "0", "3", "2", "5", "4", "7", "6">>),
    HexWord(<<"c", "3", "d", "2", "e", "1", "f", "0">>)>>
sha1K(t) ==
  IF t < 20 THEN HexWord(<<"5", "a", "8", "2", "7", "9", "9", "9">>)
  ELSE IF t < 40 THEN HexWord(<<"6", "e", "d", "9", "e", "b", "a", "1">>)
  ELSE IF t < 60 THEN HexWord(<<"8", "f", "1", "b", "b", "c", "d", "c">>)
  ELSE HexWord(<<"c", "a", "6", "2", "c", "1", "d", "6">>)
sha1F(t, b, c, d) ==
  IF t < 20 THEN Or32(And32(b, c), And32(Not32(b), d))
  ELSE IF t < 40 THEN Xor32(Xor32(b, c), d)
  ELSE IF t < 60 THEN Or32(Or32(And32(b, c), And32(b, d)), And32(c, d))
  ELSE Xor32(Xor32(b, c), d)

\* the message schedule: 16 words of the block, extended to 80
RECURSIVE Schedule(_)
Schedule(w) ==
  IF Len(w) = 80 THEN w
  ELSE Schedule(Append(w, Rotl32(Xor32(Xor32(w[Len(w) - 2], w[Len(w) - 7]),
                                       Xor32(w[Len(w) - 13], w[Len(w) - 15])), 1)))

\* one round on the five working words a, b, c, d, e
Round(w, t, s) ==
  <<Add32(Add32(Add32(Add32(Rotl32(s[1], 5), sha1F(t, s[2], s[3], s[4])), s[5]),
              w[t + 1]), sha1K(t)),
    s[1], Rotl32(s[2], 30), s[3], s[4]>>
\* rounds t .. 79, in order (s always has five words; the test on its
\* length has it computed before the next round starts)
RECURSIVE Rounds(_, _, _)
Rounds(w, t, s) ==
  IF Len(s) # 5 \/ t = 80 THEN s ELSE Rounds(w, t + 1, Round(w, t, s))

\* the big-endian words of a sequence of bytes
RECURSIVE Words(_)
Words(bs) ==
  IF bs = <<>> THEN <<>>
  ELSE << <<256 * bs[1] + bs[2], 256 * bs[3] + bs[4]>> >> \o Words(SubSeq(bs, 5, Len(bs)))
RECURSIVE AddAll(_, _, _)
AddAll(h, s, i) == IF i > 5 THEN <<>> ELSE <<Add32(h[i], s[i])>> \o AddAll(h, s, i + 1)
\* one 64-byte block
Block(h, bs) == AddAll(h, Rounds(Schedule(Words(bs)), 0, h), 1)
RECURSIVE Blocks(_, _)
Blocks(h, bs) ==
  IF bs = <<>> THEN h
  ELSE Blocks(Block(h, SubSeq(bs, 1, 64)), SubSeq(bs, 65, Len(bs)))

RECURSIVE Zeros(_)
Zeros(n) == IF n = 0 THEN <<>> ELSE <<0>> \o Zeros(n - 1)
\* the message, 0x80, zeros up to 56 modulo 64, the length in bits in 8 bytes
Pad(bytes) ==
  bytes \o <<128>> \o Zeros((119 - Len(bytes)) % 64) \o Zeros(5)
  \o <<(8 * Len(bytes)) \div 65536, ((8 * Len(bytes)) \div 256) % 256,
       (8 * Len(bytes)) % 256>>

RECURSIVE WordBytes(_)
WordBytes(ws) ==
  IF ws = <<>> THEN <<>>
  ELSE <<Head(ws)[1] \div 256, Head(ws)[1] % 256,
         Head(ws)[2] \div 256, Head(ws)[2] % 256>> \o WordBytes(Tail(ws))
\* sha1.Sum: the 20 bytes of the digest
sha1Sum(bytes) == WordBytes(Blocks(sha1Init, Pad(bytes)))

\* fmt.Sprintf("%x", bytes): two lower-case digits per byte
RECURSIVE Hex(_)
Hex(bs) ==
  IF bs = <<>> THEN <<>>
  ELSE <<HexDigits[(Head(bs) \div 16) + 1], HexDigits[(Head(bs) % 16) + 1]>> \o Hex(Tail(bs))

\* []byte(key): the strings of the model are ASCII
Lower == <<"a", "b", "c", "d", "e", "f", "g", "h", "i", "j", "k", "l", "m",
           "n", "o", "p", "q", "r", "s", "t", "u", "v", "w", "x", "y", "z">>
Digits == <<"0", "1", "2", "3", "4", "5", "6", "7", "8", "9">>
Ord(c) ==
  IF \E i \in 1..26 : Lower[i] = c THEN 96 + (CHOOSE i \in 1..26 : Lower[i] = c)
  ELSE IF \E i \in 1..10 : Digits[i] = c THEN 47 + (CHOOSE i \in 1..10 : Digits[i] = c)
  ELSE CASE c = "-" -> 45 [] c = "." -> 46 [] c = "/" -> 47 [] c = "=" -> 61 [] c = "_" -> 95
RECURSIVE Bytes(_)
Bytes(s) == IF s = <<>> THEN <<>> ELSE <<Ord(Head(s))>> \o Bytes(Tail(s))

(***************************************************************************)
(* cacheDir (golo.go:228-231).                                             *)
(***************************************************************************)
cacheDir(root, key) ==
  Join(<<root, <<".", "g", "o", "l", "o">>, <<"c", "a", "c", "h", "e">>,
         Hex(SubSeq(sha1Sum(Bytes(key)), 1, 1)), Hex(SubSeq(sha1Sum(Bytes(key)), 2, 20))>>)

(***************************************************************************)
(* register (golo.go:201-216).                                             *)
(***************************************************************************)
\* the closure is called at most MaxCalls times
MaxCalls == 2

RegRoots == {<<"/", "r">>, <<".">>}
RegPrefixes == {<<"e", "/", "f">>, <<>>}
RegKinds == {<<"p", "i", "n">>}
RegArgs == {<<"v", "1">>, <<"v", "2">>}
RequestPaths == {<<"e", "/", "f", "/", "b">>, <<"e", "/", "f", "o">>,
                 <<"e", "/", "g">>, <<"e", "/", "f">>}

\* a key without the "="
scopeKey_noEq(prefix, kind, arg) == prefix \o kind \o arg

\* prefix+kind+"="+arg (golo.go:202)
scopeKey(prefix, kind, arg) == prefix \o kind \o <<"=">> \o arg

\* what next(path) may do: exit, return nil (no descriptor), or return a
\* descriptor, with the path it was given as ImportPath or with another one
NextResults(root, path) ==
  {[exit |-> TRUE, ret |-> <<>>], [exit |-> FALSE, ret |-> <<>>],
   [exit |-> FALSE,
    ret |-> <<[ImportPath |-> path, Dir |-> Join(<<GOROOT, <<"s", "r", "c">>, path>>),
               Imports |-> <<>>]>>],
   [exit |-> FALSE,
    ret |-> <<[ImportPath |-> <<".">>,
               Dir |-> Join(<<root, <<"v", "e", "n", "d", "o", "r">>, path>>),
               Imports |-> <<>>]>>]}

\* a directory below the cache: what os.Stat says of it (nil, ENOENT, or an
\* error that is not ENOENT, such as EACCES) and what build.ImportDir returns
\* for it, which is an error unless os.Stat succeeds
CacheStates(dir) ==
  {[stat |-> "nil", imp |-> r] : r \in ImportDirResults(dir, 0)}
  \cup {[stat |-> e, imp |-> r] :
          e \in {"ENOENT", "EACCES"}, r \in {x \in ImportDirResults(dir, 0) : x.err}}
Known(f, dir) == {e.st : e \in {x \in f : x.dir = dir}}
CacheAnswers(f, dir) == IF Known(f, dir) = {} THEN CacheStates(dir) ELSE Known(f, dir)

\* the closure (golo.go:204-215) called with path: c is the state of the
\* directory it looks at, nr what next does if called.  ret holds the
\* descriptor returned, if any; fatal says where the run exited, if it did.
lookup(r, path, c, nr) ==
  LET dir == Join(<<r.dir, path>>)
      got == importPath(path, dir, c.imp)
  IN  IF ~HasPrefix(path, r.prefix)
      THEN [path |-> path, next |-> <<[arg |-> path, ret |-> nr.ret]>>,
            stats |-> <<>>, err |-> "none", imports |-> <<>>,
            ret |-> nr.ret, fatal |-> IF nr.exit THEN "next" ELSE "no"]
      ELSE IF c.stat = "ENOENT"
      THEN [path |-> path, next |-> <<>>,
            stats |-> <<dir>>, err |-> c.stat, imports |-> <<>>,
            ret |-> <<>>, fatal |-> "stat"]
      ELSE [path |-> path, next |-> <<>>,
            stats |-> <<dir>>, err |-> c.stat, imports |-> <<dir>>,
            ret |-> IF got.ok THEN <<got.pkg>> ELSE <<>>,
            fatal |-> IF got.ok THEN "no" ELSE "import"]

\* nothing is registered yet
RegInit ==
  /\ ResOff
  /\ ScanOff
  /\ reg \in [root : RegRoots, prefix : RegPrefixes, kind : RegKinds, arg : RegArgs,
              dir : {<<>>}]
  /\ calls = <<>>
  /\ cfs = {}
  /\ rpc = "new"

\* register(rootdir, prefix, kind, arg, next)
Register ==
  /\ rpc = "new"
  /\ reg' = [reg EXCEPT !.dir = cacheDir(reg.root, scopeKey(reg.prefix, reg.kind, reg.arg))]
  /\ rpc' = "ready"
  /\ UNCHANGED <<calls, cfs>>
  /\ UNCHANGED <<resVars, scanVars>>

\* a call of the closure
Lookup ==
  /\ rpc = "ready"
  /\ Len(calls) < MaxCalls
  /\ \E path \in RequestPaths :
       LET dir == Join(<<reg.dir, path>>)
       IN  \E c \in CacheAnswers(cfs, dir), nr \in NextResults(reg.root, path) :
             LET call == lookup(reg, path, c, nr)
             IN  /\ calls' = Append(calls, call)
                 /\ cfs' = IF call.stats = <<>> THEN cfs ELSE cfs \cup {[dir |-> dir, st |-> c]}
                 /\ rpc' = IF call.fatal = "no" THEN "ready" ELSE "fatal"
  /\ UNCHANGED reg
  /\ UNCHANGED <<resVars, scanVars>>

RegNext == Register \/ Lookup

SpecReg == RegInit /\ [][RegNext]_vars

\* a single-threaded program takes its next step whenever it has one
FairSpec == Spec /\ WF_vars(Next)

(***************************************************************************)
(* Properties of loadDependencies.                                         *)
(***************************************************************************)
Returned == pc \in {"returned", "built"}
LoadedAt(k) == k \in DOMAIN srcs /\ k > nInit
LoadsOf(m) == {k \in DOMAIN loadLog : loadLog[k].path = m}
ExistsBoth(m) == fs[GorootSrc(m)] = "exists" /\ fs[VendorDir(rootdir, m)] = "exists"
VendorOnly(m) == fs[GorootSrc(m)] = "absent" /\ fs[VendorDir(rootdir, m)] = "exists"
AbsentBoth(m) == fs[GorootSrc(m)] = "absent" /\ fs[VendorDir(rootdir, m)] = "absent"
Imports(ss, j, m) == m \in Range(ss[j].Imports)

\* the module identifiers reachable from S along the Imports of pkgs
RECURSIVE ReachFrom(_, _)
ReachFrom(S, pkgs) ==
  LET T == S \cup UNION {Range(pkgs[k].Imports) :
                           k \in {j \in DOMAIN pkgs : pkgs[j].ImportPath \in S}}
  IN  IF T = S THEN S ELSE ReachFrom(T, pkgs)

\* C1: with pairwise distinct initial ModuleIDs, load is invoked at most once
\* per ModuleID and never for a ModuleID of the initial set, and no ModuleID
\* appears twice in srcs, however many import edges lead to it.
C1_LoadedExactlyOnce ==
  /\ \A j, k \in DOMAIN loadLog : j # k => loadLog[j].path # loadLog[k].path
  /\ \A k \in DOMAIN loadLog : loadLog[k].path \notin ImportPaths(input)
  /\ \A j, k \in DOMAIN srcs : j # k => srcs[j].ImportPath # srcs[k].ImportPath
  /\ Returned => \A m \in ImportPaths(srcs) :
                   Cardinality({k \in DOMAIN srcs : srcs[k].ImportPath = m}) = 1

\* a run returned in which a loaded module is imported both by an initial
\* package and by a package that was itself loaded during the walk
C1_Witness ==
  /\ Returned
  /\ \E j, k, l \in DOMAIN srcs :
       /\ j <= nInit /\ LoadedAt(k) /\ LoadedAt(l) /\ k # l
       /\ Imports(srcs, j, srcs[l].ImportPath)
       /\ Imports(srcs, k, srcs[l].ImportPath)

\* C2: when loadDependencies returns, the ModuleIDs of the result are those of
\* the initial set and everything reachable from it along Imports, no more and
\* no less, and the initial descriptors are kept in front, unchanged.
C2_TransitiveClosure ==
  Returned =>
    /\ ImportPaths(srcs) = ReachFrom(ImportPaths(input), srcs)
    /\ \A k \in DOMAIN srcs : Range(srcs[k].Imports) \subseteq ImportPaths(srcs)
    /\ Len(srcs) >= Len(input)
    /\ SubSeq(srcs, 1, Len(input)) = input

\* a run returned with a module that no initial package imports directly
C2_Witness ==
  /\ Returned
  /\ Len(input) >= 1
  /\ \E k \in DOMAIN srcs :
       /\ LoadedAt(k)
       /\ \A j \in 1..nInit : ~Imports(srcs, j, srcs[k].ImportPath)

\* C3 as stated: every ModuleID the walk reaches that is in neither root ends
\* the run in a fatal error that names it.
C3_Original ==
  pc \in {"returned", "built", "fatal"} =>
    \A m \in Range(walkLog) :
      AbsentBoth(m) => pc = "fatal" /\ fatalMsg = <<"cannot resolve path", m>>

\* C3, amended: every ModuleID the walk reaches that is not the ModuleID of an
\* initial package and is in neither root ends the run at once in a fatal
\* error naming it: nothing is returned, Transform is not invoked, and each
\* root was asked once.
C3_FatalOnUnresolved ==
  \A m \in Range(walkLog) :
    (m \notin ImportPaths(input) /\ AbsentBoth(m)) =>
      /\ pc = "fatal"
      /\ fatalMsg = <<"cannot resolve path", m>>
      /\ ~ENABLED Next
      /\ m \notin ImportPaths(srcs)
      /\ Cardinality(LoadsOf(m)) = 1
      /\ \A k \in LoadsOf(m) :
           loadLog[k].stats = <<GorootSrc(m), VendorDir(rootdir, m)>>

\* a run that died on an unresolvable import after it had loaded a package
C3_Witness ==
  /\ pc = "fatal"
  /\ Len(srcs) > nInit
  /\ \E m \in Mods : fatalMsg = <<"cannot resolve path", m>> /\ AbsentBoth(m)

\* C4: load stats the standard-library directory first and the vendor
\* directory only when the first is not there; a ModuleID in both roots is
\* loaded from the standard library without a look at vendor, one only in
\* vendor from <rootdir>/vendor/<ModuleID>.
C4_StdlibProbedFirst ==
  \A k \in DOMAIN loadLog :
    LET e == loadLog[k]
        std == GorootSrc(e.path)
        vnd == VendorDir(rootdir, e.path)
        got == {j \in DOMAIN srcs : LoadedAt(j) /\ srcs[j].ImportPath = e.path}
    IN  /\ e.stats[1] = std
        /\ (vnd \in Range(e.stats)) <=> (fs[std] # "exists")
        /\ ExistsBoth(e.path) =>
             /\ e.ok /\ e.dir = std /\ e.stats = <<std>>
             /\ \A j \in got : srcs[j].Dir = std
        /\ VendorOnly(e.path) =>
             /\ e.ok /\ e.dir = vnd /\ e.stats = <<std, vnd>>
             /\ \A j \in got : srcs[j].Dir = vnd

\* one module in both roots and one only in vendor have been loaded
C4_Witness ==
  \E j, k \in DOMAIN srcs :
    /\ LoadedAt(j) /\ ExistsBoth(srcs[j].ImportPath)
    /\ LoadedAt(k) /\ VendorOnly(srcs[k].ImportPath)

\* C5 as stated: a ModuleID in both roots is loaded from the vendor directory.
C5_Original ==
  \A k \in DOMAIN srcs :
    (LoadedAt(k) /\ ExistsBoth(srcs[k].ImportPath)) =>
      srcs[k].Dir = VendorDir(rootdir, srcs[k].ImportPath)

\* C5, amended: the resolver prefers the standard-library root and falls back
\* to the vendor directory: a ModuleID in both roots is loaded from the
\* standard-library directory.
C5_StdlibPreferred ==
  \A k \in DOMAIN srcs :
    LoadedAt(k) =>
      /\ ExistsBoth(srcs[k].ImportPath) =>
           srcs[k].Dir = GorootSrc(srcs[k].ImportPath)
      /\ srcs[k].Dir = VendorDir(rootdir, srcs[k].ImportPath) =>
           VendorOnly(srcs[k].ImportPath)

\* the result holds a package that both roots offer
C5_Witness ==
  /\ Returned
  /\ \E k \in DOMAIN srcs : LoadedAt(k) /\ ExistsBoth(srcs[k].ImportPath)

\* C10: every run of loadDependencies ends, returned or fatal, whatever the
\* import graph; the frames of walk are for pairwise distinct ModuleIDs, each
\* marked seen before its frame was pushed.
C10_NoRecursionTwice ==
  /\ \A j, k \in DOMAIN stack : j # k => stack[j].path # stack[k].path
  /\ \A k \in DOMAIN stack : stack[k].path \in seen
  /\ Len(stack) < StackCap
C10_Terminates == [](C10_NoRecursionTwice) /\ <>(pc \in {"returned", "fatal"})

\* a run returned over a graph where two loaded packages import each other
\* and an initial package imports itself
C10_Witness ==
  /\ pc = "returned"
  /\ \E j, k \in DOMAIN srcs :
       /\ LoadedAt(j) /\ LoadedAt(k) /\ j # k
       /\ Imports(srcs, j, srcs[k].ImportPath)
       /\ Imports(srcs, k, srcs[j].ImportPath)

(***************************************************************************)
(* Properties of loadSources.                                              *)
(***************************************************************************)
\* the names the scanner is to ignore
IgnoredName(n) ==
  \/ n[1] = "." \/ n[1] = "_"
  \/ n = <<"t", "e", "s", "t", "d", "a", "t", "a">>
  \/ n = <<"v", "e", "n", "d", "o", "r">>
\* a directory at or below an ignored entry
BelowIgnored(rel) == \E i \in DOMAIN rel : IgnoredName(rel[i])
ProperPrefix(r1, r2) == Len(r1) < Len(r2) /\ SubSeq(r2, 1, Len(r1)) = r1
\* prefix/p for the directory at relative path p
ExpectedID(pfx, rel) ==
  IF pfx = <<>> THEN JoinSlash(rel) ELSE JoinSlash(<<pfx>> \o rel)
\* every descriptor some call of loadSources has returned so far
ReturnedSoFar ==
  Range(scanned) \cup UNION {Range(frames[k].srcs) : k \in DOMAIN frames}
ScannedAt(n) == {k \in DOMAIN scanned : scanned[k].Dir = n.dir}

\* C6: no call of loadSources returns a descriptor at or below an entry whose
\* name starts with "." or "_" or is testdata or vendor, no such entry is
\* opened, and every other directory listed is opened and, when buildable,
\* returned.
C6_IgnoredNeverReturned ==
  /\ \A d \in ReturnedSoFar :
       \E n \in tree : n.dir = d.Dir /\ ~BelowIgnored(n.rel)
  /\ \A dir \in opened :
       \E n \in tree : n.dir = dir /\ ~BelowIgnored(n.rel)
  /\ spc = "done" =>
       \A n \in tree :
         (n.kind # "file" /\ ~BelowIgnored(n.rel)) =>
           /\ n.dir \in opened
           /\ n.kind = "pkg" => ScannedAt(n) # {}

\* a scan returned the package of "vendors" next to a buildable "vendor"
C6_Witness ==
  /\ spc = "done"
  /\ \E n1, n2 \in tree :
       /\ n1.rel = <<<<"v", "e", "n", "d", "o", "r">>>> /\ n1.kind = "pkg"
       /\ n2.rel = <<<<"v", "e", "n", "d", "o", "r", "s">>>> /\ n2.kind = "pkg"
       /\ ScannedAt(n2) # {}
       /\ ScannedAt(n1) = {}

ChildrenFirst ==
  \A i, j \in DOMAIN scanned :
    (\E n1, n2 \in tree : /\ n1.dir = scanned[i].Dir /\ n2.dir = scanned[j].Dir
                          /\ ProperPrefix(n1.rel, n2.rel))
      => j < i

\* C9 as stated: every buildable directory below the scan root has exactly
\* one descriptor, with ModuleID prefix/p, and descendants come first.
C9_Original ==
  spc = "done" =>
    /\ \A n \in tree :
         n.kind = "pkg" =>
           /\ Cardinality(ScannedAt(n)) = 1
           /\ \A k \in ScannedAt(n) : scanned[k].ImportPath = ExpectedID(prefix0, n.rel)
    /\ ChildrenFirst

\* C9, amended: every buildable directory below the scan root that is not at
\* or below an ignored entry has exactly one descriptor, with ModuleID
\* prefix/p (prefix for the root), and the descriptor of a descendant comes
\* before that of its ancestor, in whatever order the entries are listed.
C9_ChildrenBeforeSelf ==
  spc = "done" =>
    /\ \A n \in tree :
         (n.kind = "pkg" /\ ~BelowIgnored(n.rel)) =>
           /\ Cardinality(ScannedAt(n)) = 1
           /\ \A k \in ScannedAt(n) : scanned[k].ImportPath = ExpectedID(prefix0, n.rel)
           /\ Cardinality({k \in DOMAIN scanned :
                             scanned[k].ImportPath = ExpectedID(prefix0, n.rel)}) = 1
    /\ ChildrenFirst

\* a scan of r/{a, a/a}, both buildable, under prefix h/p
C9_Witness ==
  /\ spc = "done"
  /\ Len(scanned) >= 2
  /\ scanned[1].ImportPath = <<"h", "/", "p", "/", "a", "/", "a">>
  /\ scanned[1].Dir = <<"/", "r", "/", "a", "/", "a">>
  /\ scanned[2].ImportPath = <<"h", "/", "p", "/", "a">>

(***************************************************************************)
(* Properties of register.                                                 *)
(***************************************************************************)
\* SHA-1 of prefix+kind+"="+arg in hexadecimal, for the registrations of
\* the model: e/fpin=v1, e/fpin=v2, pin=v1, pin=v2
KnownDigest(prefix, kind, arg) ==
  CASE prefix = <<"e", "/", "f">> /\ arg = <<"v", "1">> ->
         <<"6","9","2","2","6","c","3","b","d","6","5","2","f","1","4","4","7","0","0","8",
           "3","8","b","f","2","8","d","7","8","0","d","f","d","8","4","b","9","a","9","0">>
    [] prefix = <<"e", "/", "f">> /\ arg = <<"v", "2">> ->
         <<"4","9","4","8","4","1","2","a","9","9","a","5","9","0","7","a","b","9","e","f",
           "2","8","3","9","6","f","3","0","9","0","5","a","1","8","9","0","5","0","0","d">>
    [] prefix = <<>> /\ arg = <<"v", "1">> ->
         <<"6","8","d","a","3","e","5","a","8","9","9","0","7","6","4","b","9","0","a","6",
           "c","1","b","7","4","1","e","7","3","4","6","6","e","d","4","9","1","c","0","a">>
    [] prefix = <<>> /\ arg = <<"v", "2">> ->
         <<"5","f","8","d","8","5","7","d","5","0","5","0","9","7","f","1","b","3","8","3",
           "8","4","9","3","1","6","e","0","1","c","0","c","c","f","6","e","1","f","b","d">>
\* cacheDir(root, prefix+kind+"="+arg)/<ModuleID>
PinnedDir(r, path) ==
  Join(<<r.root, <<".", "g", "o", "l", "o">>, <<"c", "a", "c", "h", "e">>,
         SubSeq(KnownDigest(r.prefix, r.kind, r.arg), 1, 2),
         SubSeq(KnownDigest(r.prefix, r.kind, r.arg), 3, 40), path>>)
\* where load would look for the ModuleID
SearchDirs(r, path) ==
  {Join(<<GOROOT, <<"s", "r", "c">>, path>>),
   Join(<<r.root, <<"v", "e", "n", "d", "o", "r">>, path>>)}
Delegated(c) == ~HasPrefix(c.path, reg.prefix)

\* C7: a call of the function register returned, with a ModuleID that does
\* not start with prefix, calls fallback exactly once, with that ModuleID,
\* touches no directory itself, and returns what fallback returned; with a
\* ModuleID that starts with prefix it does not call fallback, hands to
\* os.Stat and build.ImportDir nothing but
\* cacheDir(root, prefix+kind+"="+arg)/<ModuleID>, which is neither the
\* standard-library nor the vendor directory of the ModuleID, and a
\* descriptor it returns has that directory and the requested ModuleID.
C7_DelegatesOrPins ==
  \A k \in DOMAIN calls :
    LET c == calls[k]
        pinned == PinnedDir(reg, c.path)
    IN  IF Delegated(c)
        THEN /\ Len(c.next) = 1
             /\ c.next[1].arg = c.path
             /\ c.stats = <<>> /\ c.imports = <<>>
             /\ c.ret = c.next[1].ret
             /\ c.fatal \in {"no", "next"}
        ELSE /\ c.next = <<>>
             /\ c.stats = <<pinned>>
             /\ Range(c.imports) \subseteq {pinned}
             /\ pinned \notin SearchDirs(reg, c.path)
             /\ \A p \in Range(c.ret) : p.ImportPath = c.path /\ p.Dir = pinned
             /\ (c.fatal = "no" => Len(c.ret) = 1)

\* a ModuleID outside the prefix was delegated and its descriptor, whose
\* ModuleID is not the requested one, came back; then a ModuleID inside the
\* prefix was served from the cache
C7_Witness ==
  /\ Len(calls) = 2
  /\ reg.prefix = <<"e", "/", "f">>
  /\ calls[1].path = <<"e", "/", "g">>
  /\ Len(calls[1].ret) = 1 /\ calls[1].ret[1].ImportPath = <<".">>
  /\ calls[2].path = <<"e", "/", "f", "/", "b">>
  /\ Len(calls[2].ret) = 1 /\ calls[2].ret[1].ImportPath = calls[2].path

\* C8: in a call with a ModuleID that starts with prefix, if os.Stat of the
\* pinned path returned an error the run ends there: build.ImportDir is not
\* attempted, nothing is returned and fallback is not called.
C8_LoadOnlyAfterStatConfirms ==
  \A k \in DOMAIN calls :
    ~Delegated(calls[k]) /\ calls[k].err # "nil" =>
      /\ calls[k].fatal = "stat"
      /\ calls[k].imports = <<>>
      /\ calls[k].ret = <<>>
      /\ calls[k].next = <<>>

====
